---- MODULE Spec2Model ----
(***************************************************************************)
(* Model of the cube update engine of cablab (src/src/cablab/cube.py):     *)
(* Cube.close, Cube.update with its loop over aligned target windows, and  *)
(* the incremental writer _write_images / _write_image /                   *)
(* _init_variable_dataset working on per-variable, per-year files.         *)
(*                                                                         *)
(* Calendar dates are day ordinals (integers); numeric times are what      *)
(* cablab.date2num makes of them.  A provider is the abstract              *)
(* CubeSourceProvider: its temporal coverage, its spatial coverage and     *)
(* the mapping it answers get_images with are inputs.                      *)
(***************************************************************************)
EXTENDS Integers, Sequences, FiniteSets, TLC

\* ---------------------------------------------------------------- bounds
\* number of Cube.update calls that get past the closed check
MaxUpdates == 2

\* ---------------------------------------------------------------- calendar
\* length of a calendar year in days (datetime.year of a day ordinal)
DaysPerYear == 365

\* day ordinal of the epoch of cablab.TIME_UNITS
EpochOrdinal == 1

Year(date) == date \div DaysPerYear

date2num(date) == date - EpochOrdinal

num2date(num) == num + EpochOrdinal

\* ---------------------------------------------------------------- inputs
\* CubeConfig.start_time default: datetime(2000, 1, 1)
DefaultStartTime == 2000 * DaysPerYear

\* CubeConfig.temporal_res default
DefaultTemporalRes == 8

TemporalResChoices == {4, DefaultTemporalRes}

Configs ==
    [easting : {-180}, northing : {-90}, spatial_res : {1},
     start_time : {DefaultStartTime}, temporal_res : TemporalResChoices]

Vars == {"v1", "v2"}

\* iteration order of the variable->image mapping a provider returns
VarOrder == <<"v1", "v2">>

\* temporal coverage of a provider, in days relative to the cube start
SrcStartOffsets == {-10, -8, 10}

SrcSpans == {0, 8, 14}

\* what a provider answers get_images with, and its spatial coverage
ProviderKinds ==
    { <<"both", <<0, 0, 2, 2>> >>, <<"first", <<1, 0, 3, 1>> >>,
      <<"none", <<0, 0, 2, 2>> >>, <<"empty", <<0, 0, 2, 2>> >>,
      <<"late", <<1, 0, 3, 1>> >>, <<"raises", <<0, 0, 2, 2>> >> }

Providers ==
    { [src_start |-> DefaultStartTime + o, src_end |-> DefaultStartTime + o + s,
       spatial |-> k[2], pattern |-> k[1]] :
        o \in SrcStartOffsets, s \in SrcSpans, k \in ProviderKinds }

NoProvider == [src_start |-> 0, src_end |-> 0, spatial |-> <<0, 0, 0, 0>>, pattern |-> "none"]

\* a null image
None == <<"None">>

\* get_images answers None or a mapping (items: variable -> image or None)
NoMapping == [is_none |-> TRUE, items |-> <<>>]

Mapping(items) == [is_none |-> FALSE, items |-> items]

Image(var_name, target_start_time) == <<"image", var_name, target_start_time>>

\* the windows for which a provider's get_images raises instead of answering
get_images_raises(provider, target_start_time, target_end_time) ==
    provider.pattern = "raises" /\ target_start_time >= DefaultStartTime

\* CubeSourceProvider.get_images: None, an empty mapping, or variable -> image / None
get_images(provider, target_start_time, target_end_time) ==
    CASE provider.pattern = "both" ->
            Mapping([v \in Vars |-> Image(v, target_start_time)])
      [] provider.pattern = "first" ->
            Mapping([v \in Vars |-> IF v = "v1" THEN Image(v, target_start_time) ELSE None])
      [] provider.pattern = "late" ->
            IF target_start_time >= DefaultStartTime
              THEN Mapping([v \in {"v2"} |-> Image(v, target_start_time)])
              ELSE NoMapping
      [] provider.pattern = "raises" ->
            IF target_start_time >= DefaultStartTime
              THEN NoMapping
              ELSE Mapping([v \in Vars |-> Image(v, target_start_time)])
      [] provider.pattern = "empty" -> Mapping(<<>>)
      [] OTHER -> NoMapping

\* ---------------------------------------------------------------- files
NoFile == [exists |-> FALSE]

\* what the library fills the skipped entries of a time variable with
TimeFill == -9999

\* the fill_value of the data variable
ImageFill == <<"fill">>

FileName(year, var_name) == <<year, var_name>>

\* var[i] = v on a variable along the unlimited dimension (0-based index)
SetItem(var, i, v, fill) ==
    IF i < Len(var)
      THEN [var EXCEPT ![i + 1] = v]
      ELSE var \o [j \in 1..(i - Len(var)) |-> fill] \o <<v>>

\* ---------------------------------------------------------------- state
VARIABLES
    config,         \* the cube's CubeConfig
    closed,         \* Cube.closed
    disk,           \* the files under <base_dir>/data: file name -> file or NoFile
    pc,             \* position of the caller: "idle", "loop", "returned", "raised"
    provider,       \* the provider passed to the running / last update
    src_start_time, \* update's local: the adjusted (aligned) source start
    src_end_time,   \* update's local
    steps,          \* update's local
    i,              \* update's loop index
    datasets,       \* update's local dict: keys in insertion order
    open_handles,   \* file names whose dataset object, of the running update, is open
    calls,          \* provider and dataset calls made by the running / last update
    n_updates,      \* number of updates that passed the closed check
    repeated,       \* the running / last update got the provider of the one before
    disk_at_begin,  \* the files as the running / last update found them
    leaked_handles  \* dataset objects left open by updates that raised in the loop

engine_vars ==
    <<config, closed, disk, pc, provider, src_start_time, src_end_time, steps, i,
      datasets, open_handles, calls, n_updates, repeated, disk_at_begin, leaked_handles>>

\* a call of _get_overlap on its own
VARIABLES
    ov_args,        \* <<a1, a2, b1, b2>>
    ov_result       \* what the call returned, <<>> before the call

overlap_vars == <<ov_args, ov_result>>

\* a BaseCubeSourceProvider and a call of its get_images
VARIABLES
    source_time_ranges, \* sorted list of <<source_start_time, source_end_time>>
    target,             \* <<target_start_time, target_end_time>> of the last call
    index_to_weight,    \* the mapping the last call built
    returned            \* "not called", "None" or "images"

weight_vars == <<source_time_ranges, target, index_to_weight, returned>>

\* the directories Cube.open and Cube.create look at
VARIABLES
    file_system,        \* base directory -> [exists, cube_config]
    call                \* the last call of Cube.open or Cube.create and its outcome

file_vars == <<file_system, call>>

\* a PrecipProvider, the directory it reads and its dataset cache
VARIABLES
    dir_listing,        \* source file -> the dates of its time variable
    fill_at,            \* the dates whose image holds the fill value at its first pixel
    old_indices,        \* self.old_indices; None and set() are both {}
    open_datasets,      \* the files the dataset cache holds open
    precip,             \* the image last computed, pixel -> value
    precip_call         \* the provider method called last

precip_vars == <<dir_listing, fill_at, old_indices, open_datasets, precip, precip_call>>

vars == <<engine_vars, overlap_vars, weight_vars, file_vars, precip_vars>>


\* ---------------------------------------------------------------- helpers
_get_num_steps_Ceil(x1, x2, dx) == 0 - ((x1 - x2) \div dx)

_get_num_steps(x1, x2, dx) == (x2 - x1) \div dx

InDatasets(filename, keys) == \E k \in 1..Len(keys) : keys[k] = filename

\* netCDF4.Dataset(file, 'w'): a new, empty file replaces whatever was there
CreatedDataset ==
    [exists |-> TRUE, longitude |-> <<>>, latitude |-> <<>>,
     start_time |-> <<>>, end_time |-> <<>>, data |-> <<>>]

\* dimensions and coordinate variables of a new file
_init_variable_dataset(prov, dataset, var_name) ==
    LET image_x0     == prov.spatial[1]
        image_width  == prov.spatial[3]
        image_height == prov.spatial[4]
        spatial_res  == config.spatial_res
        lon0 == config.easting + image_x0 * spatial_res
        lat0 == config.northing + (image_height - 1) * spatial_res
    IN  [dataset EXCEPT
            !.longitude = [k \in 1..image_width |-> lon0 + (k - 1) * spatial_res],
            !.latitude  = [k \in 1..image_height |-> lat0 - (k - 1) * spatial_res]]

NextTimeIndex_Last(var_start_time) ==
    IF Len(var_start_time) = 0 THEN 0 ELSE Len(var_start_time) - 1

\* the index _write_image writes at: i = len(var_start_time)
NextTimeIndex(var_start_time) == Len(var_start_time)

OpenMode_NoExistsCheck(filename, keys, files) ==
    IF InDatasets(filename, keys) THEN "registry" ELSE "w"

\* which dataset _write_image works on: the registry's, the existing file
\* opened in append mode, or a new file that is then initialized
OpenMode(filename, keys, files) ==
    IF InDatasets(filename, keys) THEN "registry"
    ELSE IF files[filename].exists THEN "a"
    ELSE "w"

FileYear_OfEnd(target_start_time, target_end_time) == Year(target_end_time)

\* the year in the file name: target_start_time.year
FileYear(target_start_time, target_end_time) == Year(target_start_time)

\* the provider methods _init_variable_dataset calls, in order
InitCalls(var_name) ==
    << <<"get_spatial_coverage">>, <<"get_variable_metadata", var_name>> >>

\* st is the part of the state a write works on:
\* [disk, datasets, open_handles, calls]
_write_image(st, prov, target_time_range, var_name, image) ==
    LET target_start_time == target_time_range[1]
        target_end_time   == target_time_range[2]
        filename == FileName(FileYear(target_start_time, target_end_time), var_name)
        mode     == OpenMode(filename, st.datasets, st.disk)
        dataset  == IF mode = "w"
                      THEN _init_variable_dataset(prov, CreatedDataset, var_name)
                      ELSE st.disk[filename]
        idx      == NextTimeIndex(dataset.start_time)
        written  == [dataset EXCEPT
                        !.start_time = SetItem(@, idx, date2num(target_start_time), TimeFill),
                        !.end_time   = SetItem(@, idx, date2num(target_end_time), TimeFill),
                        !.data       = SetItem(@, idx, image, ImageFill)]
    IN  [disk         |-> [st.disk EXCEPT ![filename] = written],
         datasets     |-> IF mode = "registry" THEN st.datasets
                          ELSE Append(st.datasets, filename),
         open_handles |-> IF mode = "registry" THEN st.open_handles
                          ELSE st.open_handles \cup {filename},
         calls        |-> (IF mode = "registry" THEN st.calls
                           ELSE IF mode = "a"
                             THEN Append(st.calls, <<"open", filename, mode>>)
                           ELSE Append(st.calls, <<"open", filename, mode>>)
                                   \o InitCalls(var_name))
                          \o << <<"write", filename, idx, date2num(target_start_time)>> >>]

\* the loop of _write_images over the mapping, from the k-th variable on
RECURSIVE _write_images_from(_, _, _, _, _)
_write_images_from(k, st, prov, target_time_range, var_name_to_image) ==
    IF k > Len(VarOrder) THEN st
    ELSE LET var_name == VarOrder[k]
             next == IF var_name \in DOMAIN var_name_to_image.items
                        /\ var_name_to_image.items[var_name] # None
                       THEN _write_image(st, prov, target_time_range, var_name,
                                         var_name_to_image.items[var_name])
                       ELSE st
         IN  _write_images_from(k + 1, next, prov, target_time_range, var_name_to_image)

_write_images(st, prov, target_time_range, var_name_to_image) ==
    _write_images_from(1, st, prov, target_time_range, var_name_to_image)

\* truth value of what get_images returned: None and {} are false
Truthy(var_name_to_image) ==
    ~var_name_to_image.is_none /\ DOMAIN var_name_to_image.items # {}

CloseAll_LastOnly(keys) == IF Len(keys) = 0 THEN <<>> ELSE <<keys[Len(keys)]>>

\* for key in datasets: datasets[key].close() -- the keys closed, in order
CloseAll(keys) == keys

RaisesClosed_Never(is_closed) == FALSE

\* if self.closed: raise IOError
RaisesClosed(is_closed) == is_closed

AlignedStart_Unadjusted(cube_start_time, src_start, cube_temporal_res) == src_start

\* the adjusted src_start_time
AlignedStart(cube_start_time, src_start, cube_temporal_res) ==
    cube_start_time + _get_num_steps(cube_start_time, src_start, cube_temporal_res)
                      * cube_temporal_res

LoopCount_OneShort(num_steps) == num_steps

\* the number of iterations of the loop: range(steps + 1)
LoopCount(num_steps) == num_steps + 1

WindowWanted_Always(target_start_time, src_end) == TRUE

WindowWanted_WholeInside(target_start_time, src_end) ==
    target_start_time + config.temporal_res <= src_end

\* if target_start_time < src_end_time
WindowWanted(target_start_time, src_end) == target_start_time < src_end

\* ---------------------------------------------------------------- overlap weights
\* a float result is kept as the exact fraction <<numerator, denominator>>,
\* denominator > 0; a division by zero raises
ZeroDivisionError == <<"ZeroDivisionError">>

IsNumber(x) == Len(x) = 2

\* x / y of Python, on integers
TrueDiv(x, y) ==
    IF y = 0 THEN ZeroDivisionError
    ELSE IF y < 0 THEN <<0 - x, 0 - y>>
    ELSE <<x, y>>

Float(n) == <<n, 1>>

NumEq(x, y) == IsNumber(x) /\ IsNumber(y) /\ x[1] * y[2] = y[1] * x[2]

NumLess(x, y) == IsNumber(x) /\ IsNumber(y) /\ x[1] * y[2] < y[1] * x[2]

_get_overlap_NoInsideBranch(a1, a2, b1, b2) ==
    LET a1_in_range == b1 <= a1 /\ a1 <= b2
        a2_in_range == b1 <= a2 /\ a2 <= b2
        b1_in_range == a1 <= b1 /\ b1 <= a2
        b2_in_range == a1 <= b2 /\ b2 <= a2
    IN  IF a1_in_range THEN TrueDiv(b2 - a1, b2 - b1)
        ELSE IF a2_in_range THEN TrueDiv(a2 - b1, b2 - b1)
        ELSE IF b1_in_range /\ b2_in_range THEN TrueDiv(b2 - b1, a2 - a1)
        ELSE Float(-1)

_get_overlap_OverLengthOfA(a1, a2, b1, b2) ==
    LET a1_in_range == b1 <= a1 /\ a1 <= b2
        a2_in_range == b1 <= a2 /\ a2 <= b2
        b1_in_range == a1 <= b1 /\ b1 <= a2
        b2_in_range == a1 <= b2 /\ b2 <= a2
    IN  IF a1_in_range /\ a2_in_range THEN Float(1)
        ELSE IF a1_in_range THEN TrueDiv(b2 - a1, a2 - a1)
        ELSE IF a2_in_range THEN TrueDiv(a2 - b1, a2 - a1)
        ELSE IF b1_in_range /\ b2_in_range THEN TrueDiv(b2 - b1, a2 - a1)
        ELSE Float(-1)

_get_overlap_NoContainment(a1, a2, b1, b2) ==
    LET a1_in_range == b1 <= a1 /\ a1 <= b2
        a2_in_range == b1 <= a2 /\ a2 <= b2
        b1_in_range == a1 <= b1 /\ b1 <= a2
        b2_in_range == a1 <= b2 /\ b2 <= a2
    IN  IF a1_in_range /\ a2_in_range THEN Float(1)
        ELSE IF a1_in_range THEN TrueDiv(b2 - a1, b2 - b1)
        ELSE IF a2_in_range THEN TrueDiv(a2 - b1, b2 - b1)
        ELSE Float(-1)

_get_overlap_ZeroWhenDisjoint(a1, a2, b1, b2) ==
    LET a1_in_range == b1 <= a1 /\ a1 <= b2
        a2_in_range == b1 <= a2 /\ a2 <= b2
        b1_in_range == a1 <= b1 /\ b1 <= a2
        b2_in_range == a1 <= b2 /\ b2 <= a2
    IN  IF a1_in_range /\ a2_in_range THEN Float(1)
        ELSE IF a1_in_range THEN TrueDiv(b2 - a1, b2 - b1)
        ELSE IF a2_in_range THEN TrueDiv(a2 - b1, b2 - b1)
        ELSE IF b1_in_range /\ b2_in_range THEN TrueDiv(b2 - b1, a2 - a1)
        ELSE Float(0)

_get_overlap(a1, a2, b1, b2) ==
    LET a1_in_range == b1 <= a1 /\ a1 <= b2
        a2_in_range == b1 <= a2 /\ a2 <= b2
        b1_in_range == a1 <= b1 /\ b1 <= a2
        b2_in_range == a1 <= b2 /\ b2 <= a2
    IN  IF a1_in_range /\ a2_in_range THEN Float(1)
        ELSE IF a1_in_range THEN TrueDiv(b2 - a1, b2 - b1)
        ELSE IF a2_in_range THEN TrueDiv(a2 - b1, b2 - b1)
        ELSE IF b1_in_range /\ b2_in_range THEN TrueDiv(b2 - b1, a2 - a1)
        ELSE Float(-1)

WeightCounts_NotNegative(weight) == ~NumLess(weight, Float(0))

WeightCounts_NotSentinel(weight) == ~NumEq(weight, Float(-1))

\* if weight > 0
WeightCounts(weight) == NumLess(Float(0), weight)

\* the loop of BaseCubeSourceProvider.get_images over the source indices
\* i, i + 1, ... (0-based), adding to the mapping built so far
RECURSIVE BuildIndexToWeight(_, _, _, _, _)
BuildIndexToWeight(ranges, target_start_time, target_end_time, idx, mapping) ==
    IF idx >= Len(ranges) THEN mapping
    ELSE LET source_start_time == ranges[idx + 1][1]
             source_end_time   == ranges[idx + 1][2]
             weight == _get_overlap(source_start_time, source_end_time,
                                    target_start_time, target_end_time)
         IN  BuildIndexToWeight(ranges, target_start_time, target_end_time, idx + 1,
                                IF WeightCounts(weight)
                                  THEN mapping @@ (idx :> weight)
                                  ELSE mapping)

\* the mapping get_images passes on; no mapping is built for an empty list
IndexToWeight(ranges, target_start_time, target_end_time) ==
    IF Len(ranges) = 0 THEN <<>>
    ELSE BuildIndexToWeight(ranges, target_start_time, target_end_time, 0, <<>>)

ReturnsNone_OnlyEmptyList(ranges, mapping) == Len(ranges) = 0

\* BaseCubeSourceProvider.get_images returns None without computing images
ReturnsNone(ranges, mapping) == Len(ranges) = 0 \/ DOMAIN mapping = {}

AfterGetImages_Swallow(raised) == "loop"

\* var_name_to_image = provider.get_images(...): nothing catches what it raises
AfterGetImages(raised) == IF raised THEN "raised" ELSE "loop"

\* ---------------------------------------------------------------- actions
FileNames ==
    { FileName(y, v) : y \in {Year(DefaultStartTime) - 1, Year(DefaultStartTime)},
                       v \in Vars }

EngineInit ==
    /\ config \in Configs
    /\ closed = FALSE
    /\ disk = [f \in FileNames |-> NoFile]
    /\ pc = "idle"
    /\ provider = NoProvider
    /\ src_start_time = 0
    /\ src_end_time = 0
    /\ steps = 0
    /\ i = 0
    /\ datasets = <<>>
    /\ open_handles = {}
    /\ calls = <<>>
    /\ n_updates = 0
    /\ repeated = FALSE
    /\ disk_at_begin = [f \in FileNames |-> NoFile]
    /\ leaked_handles = {}

\* no call of _get_overlap on its own
OverlapIdle ==
    /\ ov_args = <<0, 0, 0, 0>>
    /\ ov_result = <<>>

\* no provider of its own
WeightIdle ==
    /\ source_time_ranges = <<>>
    /\ target = <<0, 0>>
    /\ index_to_weight = <<>>
    /\ returned = "not called"

BaseDirs == {"cube1", "cube2", "cube3"}

NoConfigFile == [exists |-> FALSE]

NoDir == [exists |-> FALSE, cube_config |-> NoConfigFile]

EmptyDir == [exists |-> TRUE, cube_config |-> NoConfigFile]

\* no call of Cube.open or Cube.create
FileIdle ==
    /\ file_system = [d \in BaseDirs |-> NoDir]
    /\ call = [op |-> "none"]

SourceFileNames == {"precip1.nc", "precip2.nc"}

\* no PrecipProvider
PrecipIdle ==
    /\ dir_listing = [file \in SourceFileNames |-> <<>>]
    /\ fill_at = {}
    /\ old_indices = {}
    /\ open_datasets = {}
    /\ precip = <<>>
    /\ precip_call = "none"

Init == EngineInit /\ OverlapIdle /\ WeightIdle /\ FileIdle /\ PrecipIdle

NotRunning == pc \in {"idle", "returned", "raised"}

\* Cube.close
Close ==
    /\ UNCHANGED <<overlap_vars, weight_vars, file_vars, precip_vars>>
    /\ NotRunning
    /\ closed' = TRUE
    /\ UNCHANGED <<config, disk, pc, provider, src_start_time, src_end_time, steps, i,
                   datasets, open_handles, calls, n_updates, repeated, disk_at_begin, leaked_handles>>

\* Cube.update on a closed cube: raises IOError
UpdateClosed ==
    /\ UNCHANGED <<overlap_vars, weight_vars, file_vars, precip_vars>>
    /\ NotRunning
    /\ RaisesClosed(closed)
    /\ pc' = "raised"
    /\ calls' = <<>>
    /\ datasets' = <<>>
    /\ UNCHANGED <<config, closed, disk, provider, src_start_time, src_end_time, steps, i,
                   open_handles, n_updates, repeated, disk_at_begin, leaked_handles>>

BeginCalls_CoverageFirst == << <<"get_temporal_coverage">>, <<"prepare">> >>

\* the provider methods update calls before the loop, in order
BeginCalls == << <<"prepare">>, <<"get_temporal_coverage">> >>

\* Cube.update up to the loop: prepare, the coverage, the aligned start, steps
UpdateBegin ==
    /\ UNCHANGED <<overlap_vars, weight_vars, file_vars, precip_vars>>
    /\ NotRunning
    /\ ~RaisesClosed(closed)
    /\ n_updates < MaxUpdates
    /\ \E p \in Providers :
         LET cube_start_time   == date2num(config.start_time)
             cube_temporal_res == config.temporal_res
             src_start == date2num(p.src_start)
             src_end   == date2num(p.src_end)
             adjusted  == AlignedStart(cube_start_time, src_start, cube_temporal_res)
         IN  /\ provider' = p
             /\ repeated' = (n_updates > 0 /\ p = provider)
             /\ disk_at_begin' = disk
             /\ src_start_time' = adjusted
             /\ src_end_time' = src_end
             /\ steps' = _get_num_steps(adjusted, src_end, cube_temporal_res)
    /\ calls' = BeginCalls
    /\ datasets' = <<>>
    /\ i' = 0
    /\ pc' = "loop"
    /\ n_updates' = n_updates + 1
    /\ UNCHANGED <<config, closed, disk, open_handles, leaked_handles>>

\* one iteration of the loop over the target windows
UpdateStep ==
    /\ UNCHANGED <<overlap_vars, weight_vars, file_vars, precip_vars>>
    /\ pc = "loop"
    /\ i < LoopCount(steps)
    /\ LET cube_temporal_res == config.temporal_res
           target_start_time == src_start_time + i * cube_temporal_res
           target_end_time   == src_start_time + (i + 1) * cube_temporal_res
           target_time_range == <<num2date(target_start_time), num2date(target_end_time)>>
           var_name_to_image == get_images(provider, target_time_range[1],
                                           target_time_range[2])
           st0 == [disk |-> disk, datasets |-> datasets, open_handles |-> open_handles,
                   calls |-> Append(calls, <<"get_images", target_time_range[1],
                                             target_time_range[2]>>)]
           st1 == IF Truthy(var_name_to_image)
                    THEN _write_images(st0, provider, target_time_range, var_name_to_image)
                    ELSE st0
           raised == get_images_raises(provider, target_time_range[1],
                                        target_time_range[2])
       IN  IF ~WindowWanted(target_start_time, src_end_time)
             THEN UNCHANGED <<pc, disk, datasets, open_handles, calls, leaked_handles>>
           ELSE IF raised /\ AfterGetImages(raised) = "raised"
             THEN /\ pc' = "raised"
                  /\ calls' = st0.calls
                  /\ leaked_handles' =
                        leaked_handles \cup { <<n_updates, f>> : f \in open_handles }
                  /\ open_handles' = {}
                  /\ UNCHANGED <<disk, datasets>>
           ELSE /\ pc' = AfterGetImages(raised)
                /\ disk' = st1.disk
                /\ datasets' = st1.datasets
                /\ open_handles' = st1.open_handles
                /\ calls' = st1.calls
                /\ UNCHANGED leaked_handles
    /\ i' = i + 1
    /\ UNCHANGED <<config, closed, provider, src_start_time, src_end_time, steps,
                   n_updates, repeated, disk_at_begin>>

\* after the loop: close every dataset of the registry, then provider.close()
UpdateFinish ==
    /\ UNCHANGED <<overlap_vars, weight_vars, file_vars, precip_vars>>
    /\ pc = "loop"
    /\ ~(i < LoopCount(steps))
    /\ LET closing == CloseAll(datasets)
       IN  /\ open_handles' = open_handles \ { closing[k] : k \in 1..Len(closing) }
           /\ calls' = calls \o [k \in 1..Len(closing) |-> <<"dataset.close", closing[k]>>]
                             \o << <<"provider.close">> >>
    /\ pc' = "returned"
    /\ UNCHANGED <<config, closed, disk, provider, src_start_time, src_end_time, steps, i,
                   datasets, n_updates, repeated, disk_at_begin, leaked_handles>>

Next == Close \/ UpdateClosed \/ UpdateBegin \/ UpdateStep \/ UpdateFinish

Spec == Init /\ [][Next]_vars

\* ---------------------------------------------------------------- _get_overlap on its own
\* largest time value of the intervals tried
MaxTime == 10

\* closed intervals A = [a1, a2], B = [b1, b2] with a1 <= a2 and b1 <= b2
OverlapInputs ==
    { args \in (0..MaxTime) \X (0..MaxTime) \X (0..MaxTime) \X (0..MaxTime) :
        args[1] <= args[2] /\ args[3] <= args[4] }

OverlapInit ==
    /\ EngineInit
    /\ config.temporal_res = DefaultTemporalRes
    /\ ov_args \in OverlapInputs
    /\ ov_result = <<>>
    /\ WeightIdle
    /\ FileIdle
    /\ PrecipIdle

CallOverlap ==
    /\ ov_result = <<>>
    /\ ov_result' = _get_overlap(ov_args[1], ov_args[2], ov_args[3], ov_args[4])
    /\ UNCHANGED <<engine_vars, ov_args, weight_vars, file_vars, precip_vars>>

OverlapNext == CallOverlap

OverlapSpec == OverlapInit /\ [][OverlapNext]_vars

\* ---------------------------------------------------------------- get_images of the base provider
\* largest time value of the source ranges and target windows tried
MaxSourceTime == 3

\* largest number of source time ranges
MaxSources == 3

\* lists of source ranges with start <= end, sorted by start
SourceRangeLists ==
    { ranges \in UNION { [1..n -> { <<s, e>> \in (0..MaxSourceTime) \X (0..MaxSourceTime) :
                                       s <= e }] : n \in 0..MaxSources } :
        \A k \in 1..(Len(ranges) - 1) : ranges[k][1] <= ranges[k + 1][1] }

\* target windows of positive width
TargetWindows ==
    { w \in (0..MaxSourceTime) \X (0..MaxSourceTime) : w[1] < w[2] }

WeightInit ==
    /\ EngineInit
    /\ config.temporal_res = DefaultTemporalRes
    /\ OverlapIdle
    /\ source_time_ranges \in SourceRangeLists
    /\ target \in TargetWindows
    /\ index_to_weight = <<>>
    /\ returned = "not called"
    /\ FileIdle
    /\ PrecipIdle

\* BaseCubeSourceProvider.get_images(target_start_time, target_end_time)
CallGetImages ==
    /\ returned = "not called"
    /\ LET mapping == IndexToWeight(source_time_ranges, target[1], target[2])
       IN  /\ index_to_weight' = mapping
           /\ returned' = IF ReturnsNone(source_time_ranges, mapping)
                             THEN "None" ELSE "images"
    /\ UNCHANGED <<engine_vars, overlap_vars, source_time_ranges, target, file_vars, precip_vars>>

\* the times of the ranges and windows are days after the default cube start
WindowDate(t) == DefaultStartTime + t

\* a provider built on BaseCubeSourceProvider, as the writer sees it
BaseProvider ==
    [src_start |-> WindowDate(0), src_end |-> WindowDate(MaxSourceTime),
     spatial |-> <<0, 0, 2, 2>>, pattern |-> "base"]

\* what the provider's compute_images_from_sources may return for a window
ComputedChoices(target_start_time) ==
    { Mapping([v \in Vars |-> Image(v, target_start_time)]),
      Mapping([v \in Vars |-> IF v = "v1" THEN Image(v, target_start_time) ELSE None]),
      Mapping(<<>>) }

\* one iteration of the loop of Cube.update on a BaseCubeSourceProvider:
\* get_images for the window, then the write of what it returned
UpdateWindow ==
    /\ returned = "not called"
    /\ i = 0
    /\ LET target_time_range == <<WindowDate(target[1]), WindowDate(target[2])>>
           mapping == IndexToWeight(source_time_ranges, target[1], target[2])
           is_none == ReturnsNone(source_time_ranges, mapping)
           asked   == Append(calls, <<"get_images", target_time_range[1],
                                      target_time_range[2]>>)
       IN  /\ index_to_weight' = mapping
           /\ returned' = IF is_none THEN "None" ELSE "images"
           /\ \E computed \in ComputedChoices(target_time_range[1]) :
                 LET var_name_to_image == IF is_none THEN NoMapping ELSE computed
                     st0 == [disk |-> disk, datasets |-> datasets,
                             open_handles |-> open_handles,
                             calls |-> IF is_none THEN asked
                                       ELSE Append(asked, <<"compute_images_from_sources",
                                                            mapping>>)]
                 IN  \E st1 \in { IF Truthy(var_name_to_image)
                                     THEN _write_images(st0, BaseProvider,
                                                        target_time_range,
                                                        var_name_to_image)
                                     ELSE st0 } :
                        /\ disk' = st1.disk
                        /\ datasets' = st1.datasets
                        /\ open_handles' = st1.open_handles
                        /\ calls' = st1.calls
    /\ i' = i + 1
    /\ UNCHANGED <<config, closed, pc, provider, src_start_time, src_end_time, steps,
                   n_updates, repeated, disk_at_begin, leaked_handles>>
    /\ UNCHANGED <<overlap_vars, source_time_ranges, target, file_vars, precip_vars>>

WeightNext == CallGetImages \/ UpdateWindow

WeightSpec == WeightInit /\ [][WeightNext]_vars

\* ---------------------------------------------------------------- Cube.open and Cube.create
\* CubeConfig.store: one line "name = repr(value)" per attribute
store(cfg) == [exists |-> TRUE, text |-> [name \in DOMAIN cfg |-> cfg[name]]]

\* CubeConfig.load: a default CubeConfig whose attributes the lines overwrite
load(file) ==
    LET default == [easting |-> -180, northing |-> -90, spatial_res |-> 1,
                    start_time |-> DefaultStartTime, temporal_res |-> DefaultTemporalRes]
    IN  [name \in DOMAIN default \cup DOMAIN file.text |->
            IF name \in DOMAIN file.text THEN file.text[name] ELSE default[name]]

CreateRaises_Never(dir) == FALSE

\* if os.path.exists(base_dir): raise IOError
CreateRaises(dir) == dir.exists

\* if not os.path.exists(base_dir): raise IOError
OpenRaises(dir) == ~dir.exists

FileInit ==
    /\ EngineInit
    /\ config.temporal_res = DefaultTemporalRes
    /\ OverlapIdle
    /\ WeightIdle
    /\ file_system \in [BaseDirs -> {NoDir, EmptyDir}]
    /\ call = [op |-> "none"]
    /\ PrecipIdle

\* Cube.open(base_dir)
open(base_dir) ==
    /\ call' = [op |-> "open", base_dir |-> base_dir,
                outcome |-> IF OpenRaises(file_system[base_dir])
                               \/ ~file_system[base_dir].cube_config.exists
                              THEN "IOError" ELSE "Cube",
                cube |-> IF OpenRaises(file_system[base_dir])
                            \/ ~file_system[base_dir].cube_config.exists
                           THEN None
                           ELSE <<base_dir, load(file_system[base_dir].cube_config), FALSE>>]
    /\ UNCHANGED <<engine_vars, overlap_vars, weight_vars, file_system, precip_vars>>

\* Cube.create(base_dir, config)
create(base_dir, cfg) ==
    /\ IF CreateRaises(file_system[base_dir])
         THEN /\ call' = [op |-> "create", base_dir |-> base_dir, config |-> cfg,
                          outcome |-> "IOError", cube |-> None]
              /\ UNCHANGED file_system
         ELSE /\ file_system' = [file_system EXCEPT ![base_dir] =
                                    [exists |-> TRUE, cube_config |-> store(cfg)]]
              /\ call' = [op |-> "create", base_dir |-> base_dir, config |-> cfg,
                          outcome |-> "Cube", cube |-> <<base_dir, cfg, FALSE>>]
    /\ UNCHANGED <<engine_vars, overlap_vars, weight_vars, precip_vars>>

FileNext ==
    \/ \E base_dir \in BaseDirs : open(base_dir)
    \/ \E base_dir \in BaseDirs, cfg \in Configs : create(base_dir, cfg)

FileSpec == FileInit /\ [][FileNext]_vars

\* ---------------------------------------------------------------- PrecipProvider
\* number of dates (of source images) in the source directory
NumDates == 3

SourceDates == 0..(NumDates - 1)

\* the first file holds the dates below a split date, the second one the rest
DirListings ==
    { [file \in SourceFileNames |->
          IF file = "precip1.nc" THEN [j \in 1..split |-> j - 1]
          ELSE [j \in 1..(NumDates - split) |-> split + j - 1]] : split \in 0..NumDates }

\* no image or one image holds the fill value at its first pixel
FillChoices == {{}} \cup { {date} : date \in SourceDates }

\* weights of an index-to-weight mapping
WeightChoices == {<<1, 2>>, <<1, 1>>}

\* the mappings with one or more positive weights
IndexToWeightChoices ==
    UNION { [indices -> WeightChoices] : indices \in (SUBSET SourceDates) \ {{}} }

\* dataset_cache.get_dataset(file): opened at the first use and kept open
get_dataset(opened, file) == opened \cup {file}

\* dataset_cache.close_dataset(file)
close_dataset(opened, file) == opened \ {file}

\* dataset_cache.close_all_datasets()
close_all_datasets(opened) == {}

\* sorted(source_time_ranges, key=lambda item: item[0]) of the ranges
\* (dates[i], dates[i] + 1 day, file, i); the dates are 0 .. NumDates - 1
_init_source_time_ranges(listing) ==
    [k \in 1..NumDates |->
        LET file == CHOOSE f \in SourceFileNames :
                       \E j \in 1..Len(listing[f]) : listing[f][j] = k - 1
            j    == CHOOSE j \in 1..Len(listing[file]) : listing[file][j] = k - 1
        IN  <<k - 1, k, file, j - 1>>]

\* return self.source_time_ranges[i][2:4]
_get_file_and_time_index(ranges, idx) == <<ranges[idx + 1][3], ranges[idx + 1][4]>>

UnusedIndices_Reversed(old, new_indices) ==
    IF old # {} THEN new_indices \ old ELSE {}

\* if self.old_indices: unused_indices = self.old_indices - new_indices
UnusedIndices(old, new_indices) ==
    IF old # {} THEN old \ new_indices ELSE {}

FilesOf(ranges, indices) ==
    { _get_file_and_time_index(ranges, idx)[1] : idx \in indices }

\* the cache after the loop that closes the datasets of the unused indices
\* and the get_dataset calls for the new indices
DatasetsAfterCompute(opened, ranges, old, new_indices) ==
    LET unused_indices == UnusedIndices(old, new_indices)
        closed_unused  == opened \ FilesOf(ranges, unused_indices)
    IN  closed_unused \cup FilesOf(ranges, new_indices)

PrecipFill == -9999

SourceShape == <<1, 2>>

Pixels(shape) == (1..shape[1]) \X (1..shape[2])

\* dataset.variables[VAR_NAME][time_index, :, :] of a file
SourceImage(listing, fills, file, time_index) ==
    LET date == listing[file][time_index + 1]
    IN  [px \in Pixels(SourceShape) |->
            IF px = <<1, 1>>
              THEN (IF date \in fills THEN PrecipFill ELSE 2 * date + 2)
              ELSE 2 * date + 3]

\* numpy.kron(image, numpy.ones((2, 2)))
kron(image, shape) ==
    [px \in Pixels(<<2 * shape[1], 2 * shape[2]>>) |->
        image[<<(px[1] + 1) \div 2, (px[2] + 1) \div 2>>] * 1]

RECURSIVE Gcd(_, _)
Gcd(x, y) == IF y = 0 THEN x ELSE Gcd(y, x % y)

Abs(x) == IF x < 0 THEN 0 - x ELSE x

\* the fraction in lowest terms
Reduced(x) ==
    LET g == Gcd(Abs(x[1]), x[2])
    IN  <<x[1] \div g, x[2] \div g>>

NumAdd(x, y) == <<x[1] * y[2] + y[1] * x[2], x[2] * y[2]>>

NumMul(x, y) == <<x[1] * y[1], x[2] * y[2]>>

NumDiv(x, y) ==
    IF y[1] = 0 THEN ZeroDivisionError
    ELSE IF y[1] < 0 THEN Reduced(<<0 - x[1] * y[2], 0 - x[2] * y[1]>>)
    ELSE Reduced(<<x[1] * y[2], x[2] * y[1]>>)

\* the image of source index idx, as the loop reads and enlarges it
EnlargedImage(ranges, listing, fills, idx) ==
    LET ft == _get_file_and_time_index(ranges, idx)
    IN  kron(SourceImage(listing, fills, ft[1], ft[2]), SourceShape)

\* precip_sum after the loop over the indices, at one pixel; images holds
\* the enlarged image of every index
RECURSIVE precip_sum(_, _, _, _)
precip_sum(images, mapping, indices, px) ==
    IF indices = {} THEN Float(0)
    ELSE LET idx == CHOOSE m \in indices : \A n \in indices : m <= n
         IN  NumAdd(NumMul(mapping[idx], Float(images[idx][px])),
                    precip_sum(images, mapping, indices \ {idx}, px))

\* weight_sum after the loop over the indices
RECURSIVE weight_sum(_, _)
weight_sum(mapping, indices) ==
    IF indices = {} THEN Float(0)
    ELSE LET idx == CHOOSE m \in indices : \A n \in indices : m <= n
         IN  NumAdd(mapping[idx], weight_sum(mapping, indices \ {idx}))

WeightedMean(images, mapping, total) ==
    [px \in Pixels(<<2 * SourceShape[1], 2 * SourceShape[2]>>) |->
        NumDiv(precip_sum(images, mapping, DOMAIN mapping, px), total)]

\* the image compute_variable_images_from_sources returns
ComputedPrecip(ranges, listing, fills, mapping) ==
    LET new_indices == DOMAIN mapping
    IN  IF Cardinality(new_indices) = 1
          THEN LET idx == CHOOSE m \in new_indices : TRUE
               IN  [px \in Pixels(<<2 * SourceShape[1], 2 * SourceShape[2]>>) |->
                       Float(EnlargedImage(ranges, listing, fills, idx)[px])]
          ELSE WeightedMean([idx \in new_indices |->
                                EnlargedImage(ranges, listing, fills, idx)],
                            mapping, weight_sum(mapping, new_indices))

PrecipInit ==
    /\ EngineInit
    /\ config.temporal_res = DefaultTemporalRes
    /\ OverlapIdle
    /\ WeightIdle
    /\ FileIdle
    /\ dir_listing \in DirListings
    /\ fill_at \in FillChoices
    /\ old_indices = {}
    /\ open_datasets = {}
    /\ precip = <<>>
    /\ precip_call = "none"

\* PrecipProvider.prepare(): every file is opened, read and closed
PrecipPrepare ==
    /\ source_time_ranges' = _init_source_time_ranges(dir_listing)
    /\ open_datasets' = open_datasets \ SourceFileNames
    /\ precip_call' = "prepare"
    /\ UNCHANGED <<engine_vars, overlap_vars, target, index_to_weight, returned,
                   file_vars, dir_listing, fill_at, old_indices, precip>>

\* PrecipProvider.compute_variable_images_from_sources(index_to_weight)
compute_variable_images_from_sources(mapping) ==
    /\ Len(source_time_ranges) = NumDates
    /\ index_to_weight' = mapping
    /\ open_datasets' = DatasetsAfterCompute(open_datasets, source_time_ranges,
                                             old_indices, DOMAIN mapping)
    /\ old_indices' = DOMAIN mapping
    /\ precip' = ComputedPrecip(source_time_ranges, dir_listing, fill_at, mapping)
    /\ precip_call' = "compute"
    /\ UNCHANGED <<engine_vars, overlap_vars, source_time_ranges, target, returned,
                   file_vars, dir_listing, fill_at>>

\* PrecipProvider.close()
PrecipClose ==
    /\ open_datasets' = close_all_datasets(open_datasets)
    /\ precip_call' = "close"
    /\ UNCHANGED <<engine_vars, overlap_vars, weight_vars, file_vars,
                   dir_listing, fill_at, old_indices, precip>>

PrecipNext ==
    \/ PrecipPrepare
    \/ \E mapping \in IndexToWeightChoices : compute_variable_images_from_sources(mapping)
    \/ PrecipClose

PrecipSpec == PrecipInit /\ [][PrecipNext]_vars


\* ---------------------------------------------------------------- the calls of an update
IsGetImages(c) == c[1] = "get_images"

\* the get_images calls of the running / last update, in call order
GetImagesCalls == SelectSeq(calls, IsGetImages)

\* numeric start and end of the k-th requested window
RequestedStart(k) == date2num(GetImagesCalls[k][2])

RequestedEnd(k) == date2num(GetImagesCalls[k][3])

InUpdate == pc \in {"loop", "returned"}

CubeStartNum == date2num(config.start_time)

\* the grid windows of the update: starts aligned_start + j * temporal_res, j >= 0,
\* below src_end
GridWindowStarts ==
    { t \in src_start_time..(src_end_time - 1) :
        (t - src_start_time) % config.temporal_res = 0 }

\* ---------------------------------------------------------------- claims
\* C1: in one update, get_images is called exactly once for every grid window
\* start t = aligned_start + j * temporal_res (j >= 0) with t < src_end, and
\* the calls are made in strictly increasing order of t.
C1_OneCallPerWindowInOrder ==
    /\ InUpdate =>
          \A k \in 1..(Len(GetImagesCalls) - 1) : RequestedStart(k) < RequestedStart(k + 1)
    /\ pc = "returned" =>
          /\ \A t \in GridWindowStarts :
                Cardinality({ k \in 1..Len(GetImagesCalls) : RequestedStart(k) = t }) = 1
          /\ Len(GetImagesCalls) = Cardinality(GridWindowStarts)

\* an update that returned after requesting several windows, the source end
\* lying inside the last one
C1_Witness ==
    /\ pc = "returned"
    /\ Len(GetImagesCalls) >= 2
    /\ (src_end_time - src_start_time) % config.temporal_res # 0

\* C2 as stated: the aligned start is cube_start + n * temporal_res for the
\* smallest n with cube_start + n * temporal_res >= src_start.
C2_SmallestNotBelow ==
    InUpdate =>
       /\ (src_start_time - CubeStartNum) % config.temporal_res = 0
       /\ src_start_time >= date2num(provider.src_start)
       /\ src_start_time - config.temporal_res < date2num(provider.src_start)

\* C2 amended: the aligned start is cube_start + n * temporal_res for the
\* largest n with cube_start + n * temporal_res <= src_start, that is
\* n = floor((src_start - cube_start) / temporal_res); for cube_start = 0,
\* temporal_res = 8, src_start = 10 (relative to the cube start) it is 8.
C2_LargestNotAbove ==
    InUpdate =>
       /\ (src_start_time - CubeStartNum) % config.temporal_res = 0
       /\ src_start_time <= date2num(provider.src_start)
       /\ date2num(provider.src_start) < src_start_time + config.temporal_res
       /\ (config.temporal_res = 8 /\ date2num(provider.src_start) = CubeStartNum + 10)
             => src_start_time = CubeStartNum + 8

\* the example: temporal_res 8 and a source starting 10 days after the cube
C2_Witness ==
    /\ InUpdate
    /\ config.temporal_res = 8
    /\ date2num(provider.src_start) = CubeStartNum + 10
    /\ src_start_time = CubeStartNum + 8

\* C3: every get_images call of an update has
\* aligned_start <= target_start < src_end.
C3_RequestsWithinRange ==
    InUpdate =>
       \A k \in 1..Len(GetImagesCalls) :
          /\ src_start_time <= RequestedStart(k)
          /\ RequestedStart(k) < src_end_time

\* an update whose source end is itself a grid point: the loop's last index
\* gives a window starting at src_end, which is not requested
C3_Witness ==
    /\ pc = "returned"
    /\ Len(GetImagesCalls) >= 1
    /\ i = steps + 1
    /\ src_start_time + steps * config.temporal_res = src_end_time

\* C4: every requested window has width temporal_res and starts at
\* cube_start + k * temporal_res for an integer k, and each requested window
\* ends where the next requested window starts.
C4_WindowsPartition ==
    InUpdate =>
       /\ \A k \in 1..Len(GetImagesCalls) :
             /\ GetImagesCalls[k][3] - GetImagesCalls[k][2] = config.temporal_res
             /\ RequestedEnd(k) - RequestedStart(k) = config.temporal_res
             /\ (RequestedStart(k) - CubeStartNum) % config.temporal_res = 0
       /\ \A k \in 1..(Len(GetImagesCalls) - 1) : RequestedEnd(k) = RequestedStart(k + 1)

\* three consecutive windows requested, from a source start off the grid
C4_Witness ==
    /\ InUpdate
    /\ Len(GetImagesCalls) >= 3
    /\ (date2num(provider.src_start) - CubeStartNum) % config.temporal_res # 0


IsPrefix(a, b) == Len(a) <= Len(b) /\ \A j \in 1..Len(a) : b[j] = a[j]

ExistingFiles == { f \in FileNames : disk[f].exists }

\* C5: once the cube is closed it stays closed, and an update on it raises
\* before any provider method is called and without creating or changing a file.
C5_ClosedUpdateFails ==
    [][closed =>
          /\ closed'
          /\ disk' = disk
          /\ open_handles' = open_handles
          /\ \/ pc' = pc /\ calls' = calls
             \/ pc' = "raised" /\ calls' = <<>>]_vars

\* an update attempted on a cube that was filled and then closed
C5_Witness ==
    /\ closed
    /\ pc = "raised"
    /\ calls = <<>>
    /\ ExistingFiles # {}

\* C6: when update returns, every dataset handle opened during the call is
\* closed, and provider.close was called exactly once, after those closes and
\* after the last get_images call.
C6_HandlesClosedThenProviderClose ==
    pc = "returned" =>
       /\ open_handles = {}
       /\ Len(calls) >= 1
       /\ calls[Len(calls)][1] = "provider.close"
       /\ \A k \in 1..(Len(calls) - 1) : calls[k][1] # "provider.close"
       /\ \A k \in 1..Len(calls) :
             calls[k][1] = "open" =>
                \E m \in (k + 1)..(Len(calls) - 1) :
                   calls[m][1] = "dataset.close" /\ calls[m][2] = calls[k][2]

\* an update that returned after opening files of two years and two variables
C6_Witness ==
    /\ pc = "returned"
    /\ Len(datasets) >= 3
    /\ Len(GetImagesCalls) >= 2

\* the windows for which the provider gave an image of the file's variable
\* and whose start lies in the file's year, in the order they were requested
HasImageFor(c, f) ==
    LET answer == get_images(provider, c[2], c[3])
    IN  /\ Year(c[2]) = f[1]
        /\ ~answer.is_none
        /\ f[2] \in DOMAIN answer.items
        /\ answer.items[f[2]] # None

WindowsWrittenTo(f) == SelectSeq(GetImagesCalls, LAMBDA c : HasImageFor(c, f))

WritesTo(f) == SelectSeq(calls, LAMBDA c : c[1] = "write" /\ c[2] = f)

CreatedInThisUpdate(f) ==
    \E k \in 1..Len(calls) : calls[k][1] = "open" /\ calls[k][2] = f /\ calls[k][3] = "w"

\* C7: every write appends one (start, end, image) entry at the index equal to
\* the number of entries so far: a file created in this update holds, after k
\* writes, exactly the k windows written to it, in write order, at 0..k-1.
C7_AppendInWriteOrder ==
    InUpdate =>
       \A f \in FileNames :
          CreatedInThisUpdate(f) =>
             LET W == WindowsWrittenTo(f)
                 file == disk[f]
             IN  /\ file.exists
                 /\ Len(WritesTo(f)) = Len(W)
                 /\ \A j \in 1..Len(WritesTo(f)) : WritesTo(f)[j][3] = j - 1
                 /\ file.start_time = [j \in 1..Len(W) |-> date2num(W[j][2])]
                 /\ file.end_time = [j \in 1..Len(W) |-> date2num(W[j][3])]
                 /\ file.data = [j \in 1..Len(W) |->
                                    get_images(provider, W[j][2], W[j][3]).items[f[2]]]

\* two consecutive windows written to a file created in this update
C7_Witness ==
    /\ InUpdate
    /\ \E f \in FileNames :
          /\ CreatedInThisUpdate(f)
          /\ Len(disk[f].start_time) = 2
          /\ disk[f].end_time[1] = disk[f].start_time[2]

\* C8: the coordinate variables of a file are set when the file is created
\* and never again: a step leaves every existing file's coordinates and
\* existing entries as they are and at most appends along time.
C8_InitOnceThenAppend ==
    [][\A f \in FileNames :
          /\ disk[f].exists =>
                /\ disk'[f].exists
                /\ disk'[f].longitude = disk[f].longitude
                /\ disk'[f].latitude = disk[f].latitude
                /\ IsPrefix(disk[f].start_time, disk'[f].start_time)
                /\ IsPrefix(disk[f].end_time, disk'[f].end_time)
                /\ IsPrefix(disk[f].data, disk'[f].data)
          /\ (~disk[f].exists /\ disk'[f].exists) =>
                /\ disk'[f].longitude =
                      [k \in 1..provider.spatial[3] |->
                          config.easting + (provider.spatial[1] + k - 1) * config.spatial_res]
                /\ disk'[f].latitude =
                      [k \in 1..provider.spatial[4] |->
                          config.northing + (provider.spatial[4] - k) * config.spatial_res]
       ]_vars

\* a later update, by a provider of another spatial coverage, has re-opened
\* a file and appended to it
C8_Witness ==
    /\ InUpdate
    /\ \E f \in FileNames :
          /\ disk_at_begin[f].exists
          /\ Len(disk[f].start_time) > Len(disk_at_begin[f].start_time)
          /\ Len(disk[f].longitude) # provider.spatial[3]

\* C9 as stated: after any sequence of updates the start_time entries of
\* every file are strictly increasing.
C9_StartTimesIncreasing ==
    pc = "returned" =>
       \A f \in ExistingFiles :
          \A j \in 1..(Len(disk[f].start_time) - 1) :
             disk[f].start_time[j] < disk[f].start_time[j + 1]

\* C10 as stated: a second update with the same provider and the same source
\* data leaves every file with the entries it had, each window at most once.
C10_SecondUpdateAddsNothing ==
    (pc = "returned" /\ repeated) =>
       /\ disk = disk_at_begin
       /\ \A f \in ExistingFiles :
             \A j, k \in 1..Len(disk[f].start_time) :
                disk[f].start_time[j] = disk[f].start_time[k] => j = k


\* the time entries of a file that may not exist yet
EntriesOf(file, field) == IF file.exists THEN file[field] ELSE <<>>

\* C11: when get_images raises for a window the update ends with that error:
\* the raising call is the last call of the update, so no later window is
\* requested, and every file holds what it held when the update began
\* followed by the entries of the windows answered before, nothing undone.
C11_RaiseAbortsKeepsEntries ==
    /\ \A k \in 1..Len(GetImagesCalls) :
          get_images_raises(provider, GetImagesCalls[k][2], GetImagesCalls[k][3]) =>
             /\ k = Len(GetImagesCalls)
             /\ pc = "raised"
             /\ calls[Len(calls)] = GetImagesCalls[k]
    /\ (pc = "raised" /\ calls # <<>>) =>
          \A f \in FileNames :
             LET W == WindowsWrittenTo(f)
                 old == disk_at_begin[f]
             IN  /\ old.exists => disk[f].exists
                 /\ (W = <<>>) => disk[f] = old
                 /\ (W # <<>>) =>
                       /\ disk[f].exists
                       /\ disk[f].start_time =
                             EntriesOf(old, "start_time")
                                \o [j \in 1..Len(W) |-> date2num(W[j][2])]
                       /\ disk[f].end_time =
                             EntriesOf(old, "end_time")
                                \o [j \in 1..Len(W) |-> date2num(W[j][3])]
                       /\ disk[f].data =
                             EntriesOf(old, "data")
                                \o [j \in 1..Len(W) |->
                                       get_images(provider, W[j][2], W[j][3]).items[f[2]]]

\* a second update that appended a window to a file of the first update and
\* then met a raising get_images
C11_Witness ==
    /\ pc = "raised"
    /\ calls # <<>>
    /\ Len(GetImagesCalls) >= 2
    /\ \E f \in FileNames :
          /\ disk_at_begin[f].exists
          /\ Len(disk[f].start_time) > Len(disk_at_begin[f].start_time)


\* the window and the answer of the get_images call a step has just made
LastRequested == GetImagesCalls[Len(GetImagesCalls)]

LastAnswer == get_images(provider, LastRequested[2], LastRequested[3])

GaveImage(answer, var_name) ==
    /\ ~answer.is_none
    /\ var_name \in DOMAIN answer.items
    /\ answer.items[var_name] # None

\* C12: a requested window adds exactly one entry for a variable if and only
\* if the provider answered with a non-null image of that variable, and adds
\* it to the file of that variable and of the year of the window's start;
\* None, an empty mapping and null images add nothing.  So every entry of a
\* file has its start time in the file's year.
C12_OneEntryPerImageInYearFile ==
    [][/\ (pc = "loop" /\ Len(GetImagesCalls') = Len(GetImagesCalls) + 1) =>
             \A f \in FileNames :
                LET grown == Len(EntriesOf(disk'[f], "start_time"))
                                - Len(EntriesOf(disk[f], "start_time"))
                    wanted == /\ GaveImage(LastAnswer', f[2])
                              /\ Year(LastRequested'[2]) = f[1]
                IN  /\ grown = (IF wanted THEN 1 ELSE 0)
                    /\ wanted =>
                          /\ disk'[f].start_time[Len(disk'[f].start_time)]
                                = date2num(LastRequested'[2])
                          /\ disk'[f].data[Len(disk'[f].data)]
                                = LastAnswer'.items[f[2]]
       /\ \A f \in FileNames :
             \A j \in 1..Len(EntriesOf(disk'[f], "start_time")) :
                Year(num2date(disk'[f].start_time[j])) = f[1]
      ]_vars

\* an update over the turn of the year whose provider answers with an image
\* of v1 and a null image of v2: v1 has a file in both years, v2 in none
C12_Witness ==
    /\ InUpdate
    /\ provider.pattern = "first"
    /\ Len(GetImagesCalls) >= 2
    /\ disk[FileName(Year(DefaultStartTime) - 1, "v1")].exists
    /\ disk[FileName(Year(DefaultStartTime), "v1")].exists
    /\ ~disk[FileName(Year(DefaultStartTime) - 1, "v2")].exists
    /\ ~disk[FileName(Year(DefaultStartTime), "v2")].exists


\* ---------------------------------------------------------------- claims on _get_overlap
OvCalled == ov_result # <<>>

A1 == ov_args[1]

A2 == ov_args[2]

B1 == ov_args[3]

B2 == ov_args[4]

A1InB == B1 <= A1 /\ A1 <= B2

A2InB == B1 <= A2 /\ A2 <= B2

\* C13: _get_overlap returns 1.0 whenever A = [a1, a2] lies fully inside
\* B = [b1, b2].
C13_InsideGivesOne ==
    (OvCalled /\ B1 <= A1 /\ A2 <= B2) => ov_result = Float(1)

\* A strictly inside B
C13_Witness ==
    /\ OvCalled
    /\ B1 < A1 /\ A1 < A2 /\ A2 < B2
    /\ ov_result = Float(1)

\* C14: _get_overlap returns -1.0 for disjoint A and B, and never returns -1.0
\* for intervals that share a point.
C14_SentinelIffDisjoint ==
    OvCalled =>
       /\ (A2 < B1 \/ B2 < A1) => ov_result = Float(-1)
       /\ (\E t \in 0..MaxTime : A1 <= t /\ t <= A2 /\ B1 <= t /\ t <= B2)
             => ~NumEq(ov_result, Float(-1))

\* disjoint intervals of positive length
C14_Witness ==
    /\ OvCalled
    /\ A1 < A2 /\ A2 < B1 /\ B1 < B2
    /\ ov_result = Float(-1)


Min(x, y) == IF x <= y THEN x ELSE y

Max(x, y) == IF x >= y THEN x ELSE y

C16_ContainmentBranch ==
    (OvCalled /\ A1 <= B1 /\ B2 <= A2 /\ ~A1InB /\ ~A2InB) =>
       /\ NumEq(ov_result, <<B2 - B1, A2 - A1>>)
       /\ ov_args = <<0, 10, 2, 5>> => NumEq(ov_result, <<3, 10>>)

\* the example A = [0, 10], B = [2, 5]
C16_Witness ==
    /\ ov_args = <<0, 10, 2, 5>>
    /\ OvCalled
    /\ NumEq(ov_result, <<3, 10>>)


\* ---------------------------------------------------------------- claims on the weights
SourceIndices == 0..(Len(source_time_ranges) - 1)

OverlapWeight(idx) ==
    _get_overlap(source_time_ranges[idx + 1][1], source_time_ranges[idx + 1][2],
                 target[1], target[2])

\* C17: for a target window of positive width and source ranges with
\* start <= end, the mapping get_images builds holds exactly the source indices
\* whose overlap weight is strictly positive, and every weight in it is in (0, 1].
C17_PositiveWeightsOnly ==
    returned # "not called" =>
       /\ DOMAIN index_to_weight =
             { idx \in SourceIndices :
                 IsNumber(OverlapWeight(idx)) /\ OverlapWeight(idx)[1] > 0 }
       /\ \A idx \in DOMAIN index_to_weight :
             /\ index_to_weight[idx] = OverlapWeight(idx)
             /\ index_to_weight[idx][1] > 0
             /\ index_to_weight[idx][1] <= index_to_weight[idx][2]

\* three sources: one in the mapping with a weight below 1, one that only
\* touches the window (weight 0) and one apart from it (weight -1)
C17_Witness ==
    /\ returned = "images"
    /\ Len(source_time_ranges) = 3
    /\ Cardinality(DOMAIN index_to_weight) = 1
    /\ \E idx \in DOMAIN index_to_weight : index_to_weight[idx][1] < index_to_weight[idx][2]
    /\ \E idx \in SourceIndices : NumEq(OverlapWeight(idx), Float(0))
    /\ \E idx \in SourceIndices : NumEq(OverlapWeight(idx), Float(-1))


C19_OpenFilesAreCurrentFiles ==
    [][ precip_call' = "compute" =>
          /\ \A file \in FilesOf(source_time_ranges, old_indices) :
                file \notin FilesOf(source_time_ranges, DOMAIN index_to_weight')
                   => file \notin open_datasets'
          /\ open_datasets' = FilesOf(source_time_ranges, DOMAIN index_to_weight') ]_vars

\* after a computation that read both files, one that reads the second file only
C19_Witness ==
    /\ precip_call = "compute"
    /\ old_indices = DOMAIN index_to_weight
    /\ FilesOf(source_time_ranges, old_indices) = {"precip2.nc"}
    /\ open_datasets = {"precip2.nc"}
    /\ Len(dir_listing["precip1.nc"]) > 0


\* the enlarged images of the indices of the last computation
CurrentImages ==
    [idx \in DOMAIN index_to_weight |->
        EnlargedImage(source_time_ranges, dir_listing, fill_at, idx)]

\* the indices of the last computation whose image is not fill at the pixel
NonFillAt(px) ==
    { idx \in DOMAIN index_to_weight : CurrentImages[idx][px] # PrecipFill }

\* the weighted mean over the sources that are not fill at the pixel
MeanOfNonFill(px) ==
    NumDiv(precip_sum(CurrentImages, index_to_weight, NonFillAt(px), px),
           weight_sum(index_to_weight, NonFillAt(px)))

\* C20: given several source images with positive weights, the result at each
\* pixel is the weighted mean over only those sources whose value at that pixel
\* is not the fill value.
C20_MeanOverNonFillSources ==
    (DOMAIN precip # {} /\ Cardinality(DOMAIN index_to_weight) > 1) =>
        \A px \in DOMAIN precip :
            NonFillAt(px) # {} => NumEq(precip[px], MeanOfNonFill(px))

\* without a fill value among the sources the result is the weighted mean
PlainMeanWithoutFill ==
    (DOMAIN precip # {} /\ Cardinality(DOMAIN index_to_weight) > 1) =>
        \A px \in DOMAIN precip :
            NonFillAt(px) = DOMAIN index_to_weight
               => NumEq(precip[px], MeanOfNonFill(px))


\* ---------------------------------------------------------------- claims on the provider protocol
ProviderMethods ==
    {"prepare", "get_temporal_coverage", "get_images", "get_spatial_coverage",
     "get_variable_metadata", "provider.close"}

\* the provider methods the running or last update has called, in order
ProviderCalls == SelectSeq(calls, LAMBDA c : c[1] \in ProviderMethods)

\* C21: within one update of an open cube the provider methods are called in
\* the order prepare, get_temporal_coverage, then the get_images calls (with
\* the coverage and metadata queries of the files they create), then close:
\* prepare comes before every other provider call, nothing is called after
\* close, and an update that returns has called close.
C21_PrepareFirstCloseLast ==
    calls # <<>> =>
       /\ Len(ProviderCalls) >= 2
       /\ ProviderCalls[1][1] = "prepare"
       /\ ProviderCalls[2][1] = "get_temporal_coverage"
       /\ \A k \in 3..Len(ProviderCalls) :
             /\ ProviderCalls[k][1] \in
                   {"get_images", "get_spatial_coverage", "get_variable_metadata",
                    "provider.close"}
             /\ ProviderCalls[k][1] = "provider.close" => k = Len(ProviderCalls)
             /\ ProviderCalls[k][1] \in {"get_spatial_coverage", "get_variable_metadata"}
                   => \E m \in 3..(k - 1) : ProviderCalls[m][1] = "get_images"
       /\ pc = "returned" => ProviderCalls[Len(ProviderCalls)][1] = "provider.close"
       /\ pc # "returned" =>
             \A k \in 1..Len(ProviderCalls) : ProviderCalls[k][1] # "provider.close"

\* an update that returned after several get_images calls and the creation of a file
C21_Witness ==
    /\ pc = "returned"
    /\ Cardinality({ k \in 1..Len(ProviderCalls) : ProviderCalls[k][1] = "get_images" }) >= 2
    /\ \E k \in 1..Len(ProviderCalls) : ProviderCalls[k][1] = "get_variable_metadata"


\* ---------------------------------------------------------------- claims on windows without a source
NoPositiveWeight ==
    \A idx \in SourceIndices :
        ~(IsNumber(OverlapWeight(idx)) /\ OverlapWeight(idx)[1] > 0)

\* C22: when no source time range has a strictly positive overlap weight with
\* the requested window (the empty list included), get_images returns None,
\* compute_images_from_sources is not called, and the update appends no entry
\* for the window: the files stay as they were.
C22_NoOverlapNoneNoEntry ==
    (returned # "not called" /\ NoPositiveWeight) =>
       /\ returned = "None"
       /\ \A k \in 1..Len(calls) :
             calls[k][1] \notin {"compute_images_from_sources", "open", "write"}
       /\ disk = disk_at_begin
       /\ datasets = <<>>

\* an update iteration over a window that two sources miss, one of them
\* touching it at an endpoint
C22_Witness ==
    /\ i = 1
    /\ returned = "None"
    /\ Len(calls) = 1
    /\ Len(source_time_ranges) >= 2
    /\ NoPositiveWeight
    /\ \E idx \in SourceIndices : NumEq(OverlapWeight(idx), Float(0))
    /\ \E idx \in SourceIndices : NumEq(OverlapWeight(idx), Float(-1))

\* an update iteration that wrote the images computed from the sources
WroteComputedImages ==
    /\ i = 1
    /\ returned = "images"
    /\ \E k \in 1..Len(calls) : calls[k][1] = "compute_images_from_sources"
    /\ \E f \in FileNames : disk[f].exists /\ Len(disk[f].start_time) = 1


\* ---------------------------------------------------------------- claims on the coverage of the windows
\* the provider's temporal coverage, as numbers
CoverageStart == date2num(provider.src_start)

CoverageEnd == date2num(provider.src_end)

\* C23: the windows requested by an update that returns cover the provider's
\* temporal coverage: the first one starts at or before src_start, the last
\* one ends at or after src_end, and every instant of [src_start, src_end)
\* lies in exactly one requested window.
C23_WindowsCoverCoverage ==
    (pc = "returned" /\ CoverageStart < CoverageEnd) =>
       /\ Len(GetImagesCalls) >= 1
       /\ RequestedStart(1) <= CoverageStart
       /\ RequestedEnd(Len(GetImagesCalls)) >= CoverageEnd
       /\ \A t \in CoverageStart..(CoverageEnd - 1) :
             Cardinality({ k \in 1..Len(GetImagesCalls) :
                             RequestedStart(k) <= t /\ t < RequestedEnd(k) }) = 1

\* a returned update whose coverage starts inside its first window and ends
\* inside its last one
C23_Witness ==
    /\ pc = "returned"
    /\ Len(GetImagesCalls) >= 2
    /\ RequestedStart(1) < CoverageStart
    /\ CoverageEnd < RequestedEnd(Len(GetImagesCalls))


\* ---------------------------------------------------------------- claims on sources that miss the window
SourceStart(idx) == source_time_ranges[idx + 1][1]

SourceEnd(idx) == source_time_ranges[idx + 1][2]

\* the length of the intersection of the source range with the target window
IntersectionLength(idx) ==
    Max(0, Min(SourceEnd(idx), target[2]) - Max(SourceStart(idx), target[1]))

====
